---- MODULE Spec2Model ----
(***************************************************************************)
(* ScreammOS kernel core: the scancode ring buffer (src/queue.rs), the     *)
(* keyboard hand-off (src/keyboard.rs), the interrupt service routines     *)
(* (src/interrupts.rs), the boot-info frame allocator and the heap         *)
(* bootstrap (src/memory.rs), the logger (src/logger.rs), file creation    *)
(* (src/simple_fs.rs) and error reporting (src/error_handler.rs).          *)
(*                                                                         *)
(* Several specifications share the variables below:                       *)
(*   SpecQueue    ArrayQueue with push, pop and clear as whole calls       *)
(*   SpecPreempt  ArrayQueue::pop executed step by step, preempted by      *)
(*                complete pushes                                          *)
(*   SpecAlloc    BootInfoFrameAllocator::allocate_frame over the memory   *)
(*                maps the boot stage may supply                           *)
(*   SpecHeap     init_heap over the heap pages, with try_map_page, the    *)
(*                page mapper and the frame allocator it draws from        *)
(*   SpecBoot     screamos::init and kernel_main up to the foreground      *)
(*                loop, with init_heap run in place                        *)
(*   SpecProducer add_scancode against process_keypress at a queue that is *)
(*                full or one byte short of full                           *)
(*   SpecIsr      boot, the foreground consumer and the timer and keyboard *)
(*                handlers on one core, with the spin locks they take      *)
(*   SpecIsrFair  SpecIsr, where an entered handler keeps being executed   *)
(*   SpecIsrFairFg  SpecIsrFair, where boot and an entered process_keypress *)
(*                keep being executed too                                  *)
(*   SpecLog      the log macros, create_file, report_error, keyboard::init *)
(*                and get_scancode as nested calls of the foreground, with *)
(*                the spin locks they take                                 *)
(***************************************************************************)
EXTENDS Integers, Sequences, FiniteSets, TLC

(* ---------------------------------------------------------------- bounds *)
\* largest capacity handed to ArrayQueue::new in the model
MaxCapacity == 3
\* most bytes accepted by push between two clears
MaxPushes == 4

\* most regions in the boot-supplied memory map
MaxRegions == 3
\* most handler entries (timer, keyboard, producer calls) in one run
MaxInterrupts == 3
\* pages of the heap range in the model (HEAP_SIZE / 4096 in the kernel)
HeapPages == 3

(* ------------------------------------------------------------- constants *)
\* allocated_frames: [u64; 64]
AllocatedFramesLen == 64
\* size of a frame: step_by(4096)
FrameSize == 4096
\* const SCANCODE_QUEUE_SIZE: usize = 100
ScancodeQueueSize == 100
\* InterruptIndex::Timer = PIC_1_OFFSET
TimerVector == 32
\* InterruptIndex::Keyboard = PIC_1_OFFSET + 1
KeyboardVector == 33
\* buffer: [T; 100]
BufferLen == 100
\* T::default() for u8
DefaultByte == 0
\* MAX_FILES of the file system
MaxFiles == 100
\* file_count as SimpleFileSystem::new leaves it
FilesAtBoot == 4
\* let max_attempts = 3
MaxAttempts == 3
\* page-table levels below the root: a 4 KiB mapping may need a new level-3,
\* level-2 and level-1 table
MaxNewTables == 3
\* raw scancodes delivered by the keyboard controller (0x1E = 30: key 'A')
Bytes == {0, 30}

VARIABLES
    \* ---- ArrayQueue<u8>
    buffer,         \* [0..BufferLen-1 -> byte]
    head,           \* AtomicUsize, index for dequeue
    tail,           \* AtomicUsize, index for enqueue
    capacity,       \* usize given to new()
    \* ---- ArrayQueue::pop, step by step (locals of the running call)
    pop_pc,         \* "idle", "loaded_head", "loaded_tail", "read_slot"
    current_head,   \* local of pop
    seen_tail,      \* value of the tail load in pop
    item,           \* local of pop
    \* ---- observation of the calls
    accepted,       \* bytes accepted by push since new()/clear(), in order
    popped,         \* bytes returned by pop since new()/clear(), in order
    pushCalls,      \* push calls since new() while no pop/clear has been called
                    \* (-1 after a pop or clear; not counted beyond capacity+1)
    lastOp,         \* name of the last completed call
    lastResult,     \* its result: "Ok", "Err", "Some", "None", "unit", "panic"
    lastValue,      \* the byte of a "Some" result
    faulted,        \* the kernel panicked (panic handler never returns)
    \* ---- BootInfoFrameAllocator
    memory_map,     \* boot-supplied regions: [start, end (frame numbers), usable]
    next,           \* cursor into the usable-frame sequence
    allocated_frames, \* [0..63 -> address], the most recently issued frames
    allocated_count,  \* number of slots of allocated_frames in use
    \* ---- observation of allocate_frame
    issued,         \* every address returned by allocate_frame, in order
    lastAlloc,      \* result of the last call: <<>> for None, <<addr>> for Some
    \* ---- the machine: one core, foreground code and interrupt handlers
    lock,           \* spin::Mutex owners: lock name -> "free", "fg" or "isr"
    iflag,          \* CPU interrupt flag (interrupts::enable() sets it)
    fg_pc,          \* position of the foreground code (kernel_main)
    isr_pc,         \* position of the running handler, "none" if none runs
    in_service,     \* vector dispatched and not yet acknowledged, 0 if none
    port60,         \* byte in the keyboard controller's data port
    scancode,       \* local of keyboard_interrupt_handler / add_scancode
    queue_some,     \* SCANCODE_QUEUE holds Some(queue)
    kbd_initialized,\* KEYBOARD_INITIALIZED
    \* ---- observation of the interrupts
    dispatched,     \* number of handler entries so far
    kbd_ready,      \* the queue was constructed and not full at the keyboard dispatch
    decoded,        \* scancodes handed to the decoder (Keyboard::add_byte): <<context, byte>>
    \* ---- the page mapper and init_heap
    translations,   \* heap page -> <<>> or <<[frame, flags]>>: the installed mapping
    tables_missing, \* intermediate page tables of the heap range not yet created
    page,           \* index of the heap page the loop of init_heap is at
    attempts,       \* local of init_heap
    heap_pc,        \* position inside init_heap, "idle" while it does not run
    frame,          \* local of try_map_page
    try_result,     \* result of the last try_map_page call
    heap_result,    \* what init_heap returned, "none" until it returns
    \* ---- observation of init_heap
    premapped,      \* the translations as they were when init_heap was entered
    allocator_inits,\* number of ALLOCATOR.lock().init(..) calls
    faf_on_page,    \* try_map_page calls on the current page that failed with
                    \* FrameAllocationFailed
    \* ---- the logger
    system_timer,   \* static mut SYSTEM_TIMER: u64, the timestamp of Logger::log
    log_level,      \* Logger.level, as "level as u8"
    log_to_console, \* Logger.log_to_console
    log_to_file,    \* Logger.log_to_file
    \* ---- the file system and the error handler
    file_count,     \* SimpleFileSystem.file_count
    error_count,    \* ErrorHandler.error_count: severity index -> count
    safe_mode,      \* ErrorHandler.safe_mode
    \* ---- the calls of the diagnostics, on the stack of the foreground
    stack           \* frames [pc, a, b], innermost last; <<>> between calls

queueVars == <<buffer, head, tail, capacity>>
popVars   == <<pop_pc, current_head, seen_tail, item>>
obsVars   == <<accepted, popped, pushCalls, lastOp, lastResult, lastValue, faulted>>
allocVars == <<memory_map, next, allocated_frames, allocated_count, issued, lastAlloc>>
isrVars   == <<lock, iflag, fg_pc, isr_pc, in_service, port60, scancode,
               queue_some, kbd_initialized, dispatched, kbd_ready, decoded>>
heapVars  == <<translations, premapped, tables_missing, page, attempts, heap_pc,
               frame, try_result, heap_result, allocator_inits, faf_on_page>>
logVars   == <<system_timer, log_level, log_to_console, log_to_file,
               file_count, error_count, safe_mode, stack>>
vars      == <<queueVars, popVars, obsVars, allocVars, isrVars, heapVars, logVars>>

(* ------------------------------------------------------------ ArrayQueue *)
\* a slip: the index is advanced without wrapping
NextIndexNoWrap(i, cap) == i + 1

\* (i + 1) % self.capacity
NextIndex(i, cap) == (i + 1) % cap

\* a slip: "<" where the code compares with "=="
PushIsFullLess(next_tail, h) == next_tail < h

\* push: "if next_tail == self.head.load(..) { return Err(()) }"
PushIsFull(next_tail, h) == next_tail = h

\* a slip: ">" where the code compares with "=="
PopIsEmptyGreater(h, t) == h > t

\* pop: "if current_head == self.tail.load(..) { return None }"
PopIsEmpty(h, t) == h = t

\* a slip: the item is stored at next_tail instead of current_tail
StoreSlotAtNext(buf, idx, b) == [buf EXCEPT ![(idx + 1) % BufferLen] = b]

\* push: self.buffer[current_tail] = item
StoreSlot(buf, idx, b) == [buf EXCEPT ![idx] = b]

\* a slip: the item is read from the slot after current_head
LoadSlotAtNext(buf, idx) == buf[(idx + 1) % BufferLen]

\* pop: let item = self.buffer[current_head]
LoadSlot(buf, idx) == buf[idx]

\* ArrayQueue::new(capacity): assert!(capacity <= 100)
QueueNew(cap) ==
    /\ cap <= BufferLen
    /\ buffer = [i \in 0..(BufferLen - 1) |-> DefaultByte]
    /\ head = 0
    /\ tail = 0
    /\ capacity = cap

PopIdle ==
    /\ pop_pc = "idle"
    /\ current_head = 0
    /\ seen_tail = 0
    /\ item = DefaultByte

ObsInit ==
    /\ accepted = <<>>
    /\ popped = <<>>
    /\ pushCalls = 0
    /\ lastOp = "new"
    /\ lastResult = "unit"
    /\ lastValue = DefaultByte
    /\ faulted = FALSE

\* a slip: the item is stored before the full test
PushEffectStoreFirst(b, result) ==
    IF capacity = 0
    THEN /\ result = "panic"
         /\ UNCHANGED queueVars
    ELSE LET current_tail == tail
             next_tail == NextIndex(current_tail, capacity)
         IN  /\ buffer' = StoreSlot(buffer, current_tail, b)
             /\ IF PushIsFull(next_tail, head)
                THEN /\ result = "Err"
                     /\ UNCHANGED <<head, tail, capacity>>
                ELSE /\ result = "Ok"
                     /\ tail' = next_tail
                     /\ UNCHANGED <<head, capacity>>

\* the effect of push on the queue, with the result it returns
\* (capacity 0: the remainder by zero panics)
PushEffect(b, result) ==
    IF capacity = 0
    THEN /\ result = "panic"
         /\ UNCHANGED queueVars
    ELSE LET current_tail == tail
             next_tail == NextIndex(current_tail, capacity)
         IN  IF PushIsFull(next_tail, head)
             THEN /\ result = "Err"
                  /\ UNCHANGED queueVars
             ELSE /\ result = "Ok"
                  /\ buffer' = StoreSlot(buffer, current_tail, b)
                  /\ tail' = next_tail
                  /\ UNCHANGED <<head, capacity>>

\* ArrayQueue::push as one call (it runs to completion: on the single core
\* nothing preempts the producer)
Push(b) ==
    /\ ~faulted
    /\ Len(accepted) < MaxPushes
    /\ \E result \in {"Ok", "Err", "panic"} :
         /\ PushEffect(b, result)
         /\ lastResult' = result
         /\ accepted' = IF result = "Ok" THEN Append(accepted, b) ELSE accepted
         /\ faulted' = (result = "panic")
    /\ lastOp' = "push"
    /\ pushCalls' = IF pushCalls < 0 \/ pushCalls > capacity
                    THEN pushCalls ELSE pushCalls + 1
    /\ UNCHANGED <<popped, lastValue, popVars>>

\* ArrayQueue::pop as one call
Pop ==
    /\ ~faulted
    /\ pop_pc = "idle"
    /\ LET h == head IN
         IF PopIsEmpty(h, tail)
         THEN /\ lastResult' = "None"
              /\ UNCHANGED <<queueVars, popped, lastValue, faulted>>
         ELSE IF capacity = 0
         THEN /\ lastResult' = "panic"
              /\ faulted' = TRUE
              /\ UNCHANGED <<queueVars, popped, lastValue>>
         ELSE /\ lastResult' = "Some"
              /\ lastValue' = LoadSlot(buffer, h)
              /\ popped' = Append(popped, LoadSlot(buffer, h))
              /\ head' = NextIndex(h, capacity)
              /\ UNCHANGED <<buffer, tail, capacity, faulted>>
    /\ lastOp' = "pop"
    /\ pushCalls' = -1
    /\ UNCHANGED <<accepted, popVars>>

\* ArrayQueue::clear
Clear ==
    /\ ~faulted
    /\ pop_pc = "idle"
    /\ head' = 0
    /\ tail' = 0
    /\ accepted' = <<>>
    /\ popped' = <<>>
    /\ lastOp' = "clear"
    /\ lastResult' = "unit"
    /\ pushCalls' = -1
    /\ UNCHANGED <<buffer, capacity, lastValue, faulted, popVars>>

\* a slip: equal indices take the wrapped branch
QueueLenStrict == IF tail > head THEN tail - head ELSE capacity - head + tail

\* ArrayQueue::len
QueueLen == IF tail >= head THEN tail - head ELSE capacity - head + tail

\* the bytes stored between head and tail, oldest first
RECURSIVE StoredFrom(_, _)
StoredFrom(h, n) ==
    IF n = 0 THEN <<>>
    ELSE <<buffer[h]>> \o StoredFrom((h + 1) % capacity, n - 1)

Stored == StoredFrom(head, QueueLen)

IsPrefix(s, t) == Len(s) <= Len(t) /\ s = SubSeq(t, 1, Len(s))

\* the frame allocator before boot hands it a memory map
AllocUnused ==
    /\ memory_map = <<>>
    /\ next = 0
    /\ allocated_frames = [i \in 0..(AllocatedFramesLen - 1) |-> 0]
    /\ allocated_count = 0
    /\ issued = <<>>
    /\ lastAlloc = <<>>

\* heap pages of the model, numbered from HEAP_START
HeapPageRange == 0..(HeapPages - 1)

\* init_heap has not been entered: nothing of the heap range is mapped
HeapUnused ==
    /\ translations = [p \in HeapPageRange |-> <<>>]
    /\ premapped = [p \in HeapPageRange |-> <<>>]
    /\ tables_missing = MaxNewTables
    /\ page = 0
    /\ attempts = 0
    /\ heap_pc = "idle"
    /\ frame = 0
    /\ try_result = "none"
    /\ heap_result = "none"
    /\ allocator_inits = 0
    /\ faf_on_page = 0

\* the locks of the kernel that both contexts reach
Locks == {"WRITER", "KEYBOARD", "SCANCODE_QUEUE", "PICS",
          "LOGGER", "FILESYSTEM", "ERROR_HANDLER"}

\* LogLevel as u8: Debug, Info, Warning, Error, Critical
LevelDebug == 0
LevelInfo == 1
LevelWarning == 2
LevelError == 3
LevelCritical == 4

\* Logger::new, ErrorHandler::new and the file system as SimpleFileSystem::new
\* leaves it (readme.txt and three directories), with no call running
DiagnosticsNew ==
    /\ log_level = LevelInfo
    /\ log_to_console = TRUE
    /\ log_to_file = TRUE
    /\ file_count = FilesAtBoot
    /\ error_count = [i \in 0..3 |-> 0]
    /\ safe_mode = FALSE
    /\ stack = <<>>

\* the machine at reset: interrupts off, nothing constructed
MachineReset ==
    /\ lock = [l \in Locks |-> "free"]
    /\ iflag = FALSE
    /\ fg_pc = "init_pics"
    /\ isr_pc = "none"
    /\ in_service = 0
    /\ port60 = DefaultByte
    /\ scancode = DefaultByte
    /\ queue_some = FALSE
    /\ kbd_initialized = FALSE
    /\ dispatched = 0
    /\ kbd_ready = FALSE
    /\ decoded = <<>>
    /\ system_timer = 0
    /\ DiagnosticsNew

InitQueue ==
    /\ \E cap \in 0..MaxCapacity : QueueNew(cap)
    /\ PopIdle
    /\ ObsInit
    /\ AllocUnused
    /\ HeapUnused
    /\ MachineReset

NextQueue ==
    /\ \/ \E b \in Bytes : Push(b)
       \/ Pop
       \/ Clear
    /\ UNCHANGED <<allocVars, heapVars, logVars, isrVars>>

SpecQueue == InitQueue /\ [][NextQueue]_vars

(* ------------------------------------- ArrayQueue::pop, one step at a time *)
\* let current_head = self.head.load(Ordering::Relaxed)
PopLoadHead ==
    /\ ~faulted
    /\ pop_pc = "idle"
    /\ current_head' = head
    /\ pop_pc' = "loaded_head"
    /\ UNCHANGED <<queueVars, seen_tail, item, obsVars>>

\* if current_head == self.tail.load(Ordering::Relaxed) { return None }
PopLoadTail ==
    /\ pop_pc = "loaded_head"
    /\ seen_tail' = tail
    /\ IF PopIsEmpty(current_head, tail)
       THEN /\ pop_pc' = "idle"
            /\ lastOp' = "pop"
            /\ lastResult' = "None"
            /\ pushCalls' = -1
            /\ UNCHANGED <<accepted, popped, lastValue, faulted>>
       ELSE /\ pop_pc' = "loaded_tail"
            /\ UNCHANGED obsVars
    /\ UNCHANGED <<queueVars, current_head, item>>

\* let item = self.buffer[current_head]
PopReadSlot ==
    /\ pop_pc = "loaded_tail"
    /\ item' = LoadSlot(buffer, current_head)
    /\ pop_pc' = "read_slot"
    /\ UNCHANGED <<queueVars, current_head, seen_tail, obsVars>>

\* self.head.store((current_head + 1) % self.capacity, ..); Some(item)
PopStoreHead ==
    /\ pop_pc = "read_slot"
    /\ capacity > 0
    /\ head' = NextIndex(current_head, capacity)
    /\ pop_pc' = "idle"
    /\ lastOp' = "pop"
    /\ lastResult' = "Some"
    /\ lastValue' = item
    /\ popped' = Append(popped, item)
    /\ pushCalls' = -1
    /\ UNCHANGED <<buffer, tail, capacity, current_head, seen_tail, item,
                   accepted, faulted>>

NextPreempt ==
    /\ \/ \E b \in Bytes : Push(b)
       \/ PopLoadHead
       \/ PopLoadTail
       \/ PopReadSlot
       \/ PopStoreHead
    /\ UNCHANGED <<allocVars, heapVars, logVars, isrVars>>

SpecPreempt == InitQueue /\ [][NextPreempt]_vars

(* ------------------------------------------------------ claims: the queue *)
\* C1: the bytes returned by successful pops are always a prefix of the bytes
\* accepted by successful pushes, and the bytes still stored are exactly the
\* rest of the accepted bytes in push order, so that popping everything after
\* pushing b1..bn returns b1..bn in that order.
C1_FifoOrder ==
    /\ IsPrefix(popped, accepted)
    /\ accepted = popped \o Stored
    /\ (lastOp = "pop" /\ lastResult = "Some") => lastValue = accepted[Len(popped)]

\* C1 witness: a queue of capacity 3 whose indices have wrapped around and
\* that has returned every accepted byte, a non-default byte among them
C1_Witness ==
    /\ capacity = 3
    /\ Len(popped) = 4
    /\ popped = accepted
    /\ popped[3] = 30
    /\ popped[4] = 0
    /\ lastOp = "pop"

\* C2: while pop is between two of its steps and complete pushes run in
\* between, the accepted bytes are exactly the returned bytes followed by the
\* stored bytes (none lost, overwritten or returned twice), the running pop
\* still works on the current head, and the byte it has read is the oldest
\* unread byte.
C2_PreemptedPopSafe ==
    /\ accepted = popped \o Stored
    /\ pop_pc # "idle" => current_head = head
    /\ pop_pc = "read_slot" => item = accepted[Len(popped) + 1]
    /\ (lastOp = "pop" /\ lastResult = "Some" /\ pop_pc = "idle")
          => (Len(popped) > 0 /\ lastValue = accepted[Len(popped)])

\* C2 witness: a pop that has read its slot and was then preempted by pushes
\* that filled the queue (the tail moved after pop loaded it)
C2_Witness ==
    /\ pop_pc = "read_slot"
    /\ capacity = 3
    /\ seen_tail # tail
    /\ (tail + 1) % capacity = head
    /\ Len(popped) >= 2

\* C3: push on a full queue returns Err and leaves the buffer, head and tail
\* as they were (and accepts nothing).
C3_PushFullRejected ==
    [][(lastOp' = "push" /\ capacity > 0 /\ (tail + 1) % capacity = head)
         => /\ lastResult' = "Err"
            /\ buffer' = buffer
            /\ head' = head
            /\ tail' = tail
            /\ accepted' = accepted
            /\ ~faulted']_vars

\* C3 witness: a rejected push on a queue holding capacity-1 bytes
C3_Witness ==
    /\ lastOp = "push"
    /\ lastResult = "Err"
    /\ capacity >= 3
    /\ QueueLen = capacity - 1
    /\ head > 0

\* C4: pop on an empty queue returns None, does not panic and leaves the
\* buffer, head and tail as they were.
C4_PopEmptyNone ==
    [][(lastOp' = "pop" /\ head = tail)
         => /\ lastResult' = "None"
            /\ ~faulted'
            /\ buffer' = buffer
            /\ head' = head
            /\ tail' = tail
            /\ popped' = popped]_vars

\* C4 witness: an empty pop on a queue that has been used (head has moved)
C4_Witness ==
    /\ lastOp = "pop"
    /\ lastResult = "None"
    /\ head = tail
    /\ head > 0

\* C5: on a new queue of capacity N, with no pop or clear in between, push
\* call number k succeeds for k <= N-1 and fails for k = N.
C5_NthPushFails ==
    (lastOp = "push" /\ pushCalls >= 1 /\ pushCalls <= capacity)
        => lastResult = (IF pushCalls < capacity THEN "Ok" ELSE "Err")

\* C5 witness: the N-th push on a queue of capacity N >= 3 was rejected
C5_Witness ==
    /\ lastOp = "push"
    /\ capacity >= 3
    /\ pushCalls = capacity
    /\ lastResult = "Err"
    /\ Len(accepted) = capacity - 1

(* ---------------------------------------------- BootInfoFrameAllocator *)
\* the regions the boot stage may report (frame numbers, end exclusive):
\* three single frames, one run of 65 frames, one reserved frame
Regions ==
    { [start |-> 0, end |-> 1,  usable |-> TRUE],
      [start |-> 1, end |-> 2,  usable |-> TRUE],
      [start |-> 2, end |-> 3,  usable |-> TRUE],
      [start |-> 0, end |-> 65, usable |-> TRUE],
      [start |-> 1, end |-> 2,  usable |-> FALSE] }

RECURSIVE SeqsUpTo(_, _)
SeqsUpTo(S, n) ==
    IF n = 0 THEN {<<>>}
    ELSE LET shorter == SeqsUpTo(S, n - 1)
         IN  shorter \cup {Append(m, r) : m \in shorter, r \in S}

\* PhysFrame::containing_address(PhysAddr::new(addr)).start_address()
ContainingAddress(addr) == addr - (addr % FrameSize)

\* (r.range.start_addr()..r.range.end_addr()).step_by(4096), as frame addresses
RECURSIVE RegionFrames(_, _)
RegionFrames(addr, end_addr) ==
    IF addr >= end_addr THEN <<>>
    ELSE <<ContainingAddress(addr)>> \o RegionFrames(addr + FrameSize, end_addr)

\* a slip: the filter on the region type is left out
RECURSIVE UsableFramesUnfiltered(_)
UsableFramesUnfiltered(map) ==
    IF map = <<>> THEN <<>>
    ELSE LET r == Head(map)
         IN  RegionFrames(r.start * FrameSize, r.end * FrameSize)
                 \o UsableFramesUnfiltered(Tail(map))

\* usable_frames(): the frames of the usable regions, in map order
RECURSIVE UsableFrames(_)
UsableFrames(map) ==
    IF map = <<>> THEN <<>>
    ELSE LET r == Head(map)
         IN  (IF r.usable
              THEN RegionFrames(r.start * FrameSize, r.end * FrameSize)
              ELSE <<>>) \o UsableFrames(Tail(map))

\* a slip: the scan of the record stops one slot early
IsFrameAllocatedButLast(frame_addr) ==
    \E i \in 0..(allocated_count - 2) : allocated_frames[i] = frame_addr

\* a slip: the scan of the record starts at slot 1
IsFrameAllocatedFromOne(frame_addr) ==
    \E i \in 1..(allocated_count - 1) : allocated_frames[i] = frame_addr

\* is_frame_allocated
IsFrameAllocated(frame_addr) ==
    \E i \in 0..(allocated_count - 1) : allocated_frames[i] = frame_addr

\* a slip: a full record is restarted from its first slot
MarkFrameAllocatedRestart(frame_addr) ==
    IF allocated_count < AllocatedFramesLen
    THEN [frames |-> [allocated_frames EXCEPT ![allocated_count] = frame_addr],
          count  |-> allocated_count + 1]
    ELSE [frames |-> [allocated_frames EXCEPT ![0] = frame_addr],
          count  |-> allocated_count]

\* a slip: a full record is left as it is, so its oldest entries stay
MarkFrameAllocatedKeepOldest(frame_addr) ==
    IF allocated_count < AllocatedFramesLen
    THEN [frames |-> [allocated_frames EXCEPT ![allocated_count] = frame_addr],
          count  |-> allocated_count + 1]
    ELSE [frames |-> allocated_frames, count |-> allocated_count]

\* mark_frame_allocated: the record and its count after the call
MarkFrameAllocated(frame_addr) ==
    IF allocated_count < AllocatedFramesLen
    THEN [frames |-> [allocated_frames EXCEPT ![allocated_count] = frame_addr],
          count  |-> allocated_count + 1]
    ELSE [frames |-> [i \in 0..(AllocatedFramesLen - 1) |->
                        IF i < AllocatedFramesLen - 1
                        THEN allocated_frames[i + 1]
                        ELSE frame_addr],
          count  |-> allocated_count]

\* a slip: the cursor is advanced only for the frames that are passed over
RECURSIVE AllocScanNoAdvance(_, _)
AllocScanNoAdvance(frames, n) ==
    IF n >= Len(frames)
    THEN [found |-> <<>>, next |-> n]
    ELSE IF ~IsFrameAllocated(frames[n + 1])
         THEN [found |-> <<frames[n + 1]>>, next |-> n]
         ELSE AllocScanNoAdvance(frames, n + 1)

\* a slip: a scan that runs off the end of the sequence starts over
RECURSIVE AllocScanRewind(_, _)
AllocScanRewind(frames, n) ==
    IF n >= Len(frames)
    THEN [found |-> <<>>, next |-> 0]
    ELSE IF ~IsFrameAllocated(frames[n + 1])
         THEN [found |-> <<frames[n + 1]>>, next |-> n + 1]
         ELSE AllocScanRewind(frames, n + 1)

\* the loop of allocate_frame from cursor n: the frame it breaks with and the
\* cursor it leaves ("frame_iter.next()?" returns None before next is advanced)
RECURSIVE AllocScan(_, _)
AllocScan(frames, n) ==
    IF n >= Len(frames)
    THEN [found |-> <<>>, next |-> n]
    ELSE IF ~IsFrameAllocated(frames[n + 1])
         THEN [found |-> <<frames[n + 1]>>, next |-> n + 1]
         ELSE AllocScan(frames, n + 1)

\* BootInfoFrameAllocator::allocate_frame
AllocateFrame ==
    LET scan == AllocScan(UsableFrames(memory_map), next)
    IN  /\ next' = scan.next
        /\ lastAlloc' = scan.found
        /\ IF scan.found = <<>>
           THEN UNCHANGED <<allocated_frames, allocated_count, issued>>
           ELSE LET marked == MarkFrameAllocated(scan.found[1])
                IN  /\ allocated_frames' = marked.frames
                    /\ allocated_count' = marked.count
                    /\ issued' = Append(issued, scan.found[1])
        /\ UNCHANGED memory_map

\* BootInfoFrameAllocator::init(memory_map)
InitAlloc ==
    /\ memory_map \in SeqsUpTo(Regions, MaxRegions)
    /\ next = 0
    /\ allocated_frames = [i \in 0..(AllocatedFramesLen - 1) |-> 0]
    /\ allocated_count = 0
    /\ issued = <<>>
    /\ lastAlloc = <<>>
    /\ QueueNew(0)
    /\ PopIdle
    /\ ObsInit
    /\ MachineReset
    /\ HeapUnused

NextAlloc ==
    /\ AllocateFrame
    /\ UNCHANGED <<queueVars, popVars, obsVars, isrVars, heapVars, logVars>>

SpecAlloc == InitAlloc /\ [][NextAlloc]_vars

(* -------------------------------------------- claims: the frame allocator *)
\* C10: within any run of at most 64 consecutive allocate_frame calls no two
\* calls return the same address: the address returned last differs from
\* each of the 63 addresses returned before it.
C10_NoDuplicateInWindow ==
    \A i \in 1..(Len(issued) - 1) :
        (Len(issued) - i < AllocatedFramesLen) => issued[i] # issued[Len(issued)]

\* C10 witness: the record is full and has slid, and a frame of the memory
\* map that is still in the record has been passed over
C10_Witness ==
    /\ Len(issued) > AllocatedFramesLen
    /\ allocated_count = AllocatedFramesLen
    /\ next > Len(issued)

\* the usable regions of the memory map, in map order
UsableRegions == SelectSeq(memory_map, LAMBDA r : r.usable)

\* every usable region is one 4 KiB frame and no two of them are the same
SingleFrameRegions ==
    /\ \A i \in 1..Len(UsableRegions) :
           UsableRegions[i].end = UsableRegions[i].start + 1
    /\ \A i, j \in 1..Len(UsableRegions) :
           i # j => UsableRegions[i].start # UsableRegions[j].start

\* C11: over a memory map whose usable regions are distinct single 4 KiB
\* frames r0, r1, .., the k-th allocate_frame call returns the start address
\* of the k-th usable region (regions that are not usable are passed over),
\* and a call returns None exactly when every usable region has been issued.
C11_MapOrder ==
    [][ (SingleFrameRegions /\ <<next, lastAlloc, issued>>' # <<next, lastAlloc, issued>>)
        => IF Len(issued) < Len(UsableRegions)
           THEN /\ lastAlloc' = <<UsableRegions[Len(issued) + 1].start * FrameSize>>
                /\ issued' = Append(issued, lastAlloc'[1])
           ELSE /\ lastAlloc' = <<>>
                /\ issued' = issued ]_vars

\* C11 witness: three usable single-frame regions r0, r1, r2 were issued in
\* that order and the call after them returned None
C11_Witness ==
    /\ SingleFrameRegions
    /\ Len(UsableRegions) = 3
    /\ issued = <<UsableRegions[1].start * FrameSize,
                  UsableRegions[2].start * FrameSize,
                  UsableRegions[3].start * FrameSize>>
    /\ next = 3
    /\ lastAlloc = <<>>

\* C12: the address a call of allocate_frame returns is in none of the slots
\* in use of the recent-issue record as it was when the call was made.
C12_NeverReturnsRecorded ==
    [][ (issued' # issued)
        => \A i \in 0..(allocated_count - 1) :
               allocated_frames[i] # lastAlloc'[1] ]_vars

\* C12 witness: a frame of the memory map was passed over because it was in
\* the record, and a later frame was returned
C12_Witness ==
    /\ lastAlloc # <<>>
    /\ Len(issued) = 2
    /\ next = 3
    /\ UsableFrames(memory_map)[2] = issued[1]

\* C28 as stated: every call of allocate_frame advances the cursor by at
\* least one position.
C28_EveryCallAdvances ==
    [][ (<<next, lastAlloc, issued>>' # <<next, lastAlloc, issued>>)
        => next' > next ]_vars

\* C28: the cursor never decreases and never passes the end of the usable
\* frame sequence, and every call that returns a frame advances it by at
\* least one position (a call that returns None with the cursor at the end
\* leaves it there).
C28_CursorMonotonic ==
    [][ /\ next' >= next
        /\ next' <= Len(UsableFrames(memory_map))
        /\ (issued' # issued) => next' > next ]_vars

\* C28 witness: a call that passed over a recorded frame and returned the
\* one after it was followed by a call that returned None
C28_Witness ==
    /\ lastAlloc = <<>>
    /\ Len(issued) > 0
    /\ next > Len(issued)
    /\ next = Len(UsableFrames(memory_map))

\* C29: after k successful calls the record holds the last min(k, 64)
\* returned addresses in order of issue, oldest in slot 0, and never more
\* than 64 entries.
C29_RecordIsLastIssued ==
    /\ allocated_count <= AllocatedFramesLen
    /\ allocated_count = IF Len(issued) < AllocatedFramesLen
                         THEN Len(issued) ELSE AllocatedFramesLen
    /\ \A i \in 0..(allocated_count - 1) :
           allocated_frames[i] = issued[Len(issued) - allocated_count + i + 1]

\* C29 witness: two insertions into the full record have each evicted the
\* oldest entry
C29_Witness ==
    /\ Len(issued) = AllocatedFramesLen + 2
    /\ allocated_frames[0] = issued[3]
    /\ allocated_frames[AllocatedFramesLen - 1] = issued[Len(issued)]

\* C30: when the frame at the cursor has an address that was issued before
\* but not among the last 64 issued addresses, allocate_frame returns that
\* address again.
C30_ProtectionBoundedByWindow ==
    [][ LET uf == UsableFrames(memory_map)
        IN  (/\ next < Len(uf)
             /\ \E i \in 1..Len(issued) : issued[i] = uf[next + 1]
             /\ \A i \in 1..Len(issued) :
                    (Len(issued) - i < AllocatedFramesLen) => issued[i] # uf[next + 1])
            => lastAlloc' = <<uf[next + 1]>> ]_vars

\* C30 witness: one address has been issued twice, with at least 64 other
\* issued addresses in between
C30_Witness ==
    \E i, j \in 1..Len(issued) :
        /\ j - i > AllocatedFramesLen
        /\ issued[i] = issued[j]

(* ------------------------------------------- init_heap and try_map_page *)
\* most usable frames in the memory map handed to init_heap: enough for the
\* page tables and every heap page
MaxFrames == HeapPages + MaxNewTables

\* the frame a heap page is mapped to when init_heap finds it mapped: a frame
\* in use, which a valid memory map does not report as usable
PremappedFrame(p) == (MaxFrames + 1 + p) * FrameSize

\* the region of the frames in use
InUseRegion ==
    [start |-> MaxFrames + 1, end |-> MaxFrames + 1 + HeapPages, usable |-> FALSE]

\* the memory maps of the boot stage: regions that do not overlap, with n
\* usable frames in one run or split by a reserved frame
HeapMaps ==
    { <<[start |-> 0, end |-> n, usable |-> TRUE], InUseRegion>> :
          n \in 0..MaxFrames }
    \cup
    { <<[start |-> 0, end |-> 1, usable |-> TRUE],
        [start |-> 1, end |-> 2, usable |-> FALSE],
        [start |-> 2, end |-> n + 1, usable |-> TRUE], InUseRegion>> :
          n \in 1..MaxFrames }

\* PageTableFlags::PRESENT | PageTableFlags::WRITABLE
HeapFlags == "PRESENT|WRITABLE"

\* the loop of init_heap moves to the next page of page_range, or leaves the
\* loop after the last one
NextPage ==
    /\ page' = page + 1
    /\ attempts' = 0
    /\ faf_on_page' = 0
    /\ heap_pc' = IF page + 1 < HeapPages THEN "try_map_page" ELSE "init_allocator"

\* try_map_page returns Err(FrameAllocationFailed) to the match of init_heap
FailFrameAllocation ==
    /\ try_result' = "FrameAllocationFailed"
    /\ faf_on_page' = faf_on_page + 1
    /\ heap_pc' = "match"

\* try_map_page: frame_allocator.allocate_frame()
\*                   .ok_or(MapToError::FrameAllocationFailed)?
TryMapPageAllocate ==
    /\ heap_pc = "try_map_page"
    /\ AllocateFrame
    /\ IF lastAlloc' = <<>>
       THEN /\ FailFrameAllocation
            /\ UNCHANGED frame
       ELSE /\ frame' = lastAlloc'[1]
            /\ heap_pc' = "map_to"
            /\ UNCHANGED <<try_result, faf_on_page>>
    /\ UNCHANGED <<translations, premapped, tables_missing, page, attempts,
                   heap_result, allocator_inits>>

\* a slip: the entry of the page is written before its tables exist
FailedTableTranslationsPartial ==
    [translations EXCEPT ![page] = <<[frame |-> frame, flags |-> HeapFlags]>>]

\* the translations map_to leaves when it fails for want of a table frame:
\* no partial translation is left for the page
FailedTableTranslations == translations

\* mapper.map_to(page, frame, flags, frame_allocator): an intermediate page
\* table is missing and its frame is taken from the frame allocator; without
\* a frame the call fails and the page's entry is not touched
MapToCreateTable ==
    /\ heap_pc = "map_to"
    /\ tables_missing > 0
    /\ AllocateFrame
    /\ IF lastAlloc' = <<>>
       THEN /\ FailFrameAllocation
            /\ translations' = FailedTableTranslations
            /\ UNCHANGED tables_missing
       ELSE /\ tables_missing' = tables_missing - 1
            /\ UNCHANGED <<translations, heap_pc, try_result, faf_on_page>>
    /\ UNCHANGED <<premapped, page, attempts, frame, heap_result, allocator_inits>>

\* a slip: the entry of the page is written whether or not it is in use
MapToEntryOverwrite(p, f) ==
    [result |-> "Ok",
     translations |-> [translations EXCEPT ![p] = <<[frame |-> f, flags |-> HeapFlags]>>]]

\* map_to with every table present: the entry of the page is written unless
\* it is in use, which is reported as PageAlreadyMapped
MapToEntry(p, f) ==
    IF translations[p] # <<>>
    THEN [result |-> "PageAlreadyMapped", translations |-> translations]
    ELSE [result |-> "Ok",
          translations |-> [translations EXCEPT ![p] = <<[frame |-> f, flags |-> HeapFlags]>>]]

\* mapper.map_to(..)?.flush() once the tables exist
MapToInstall ==
    /\ heap_pc = "map_to"
    /\ tables_missing = 0
    /\ LET r == MapToEntry(page, frame)
       IN  /\ translations' = r.translations
           /\ try_result' = r.result
    /\ heap_pc' = "match"
    /\ UNCHANGED <<premapped, tables_missing, page, attempts, frame, heap_result,
                   allocator_inits, faf_on_page>>
    /\ UNCHANGED allocVars

\* a slip: the guard of the retry arm admits attempts = max_attempts
MatchArmRetryInclusive(result, a) ==
    CASE result = "Ok" -> "ok"
      [] result = "FrameAllocationFailed" /\ a <= MaxAttempts -> "retry"
      [] result = "PageAlreadyMapped" -> "skip"
      [] OTHER -> "return"

\* a slip: PageAlreadyMapped falls to the last arm
MatchArmMappedIsError(result, a) ==
    CASE result = "Ok" -> "ok"
      [] result = "FrameAllocationFailed" /\ a < MaxAttempts -> "retry"
      [] OTHER -> "return"

\* a slip: a page that is out of retries is given up like a mapped one
MatchArmGiveUp(result, a) ==
    CASE result = "Ok" -> "ok"
      [] result = "FrameAllocationFailed" /\ a < MaxAttempts -> "retry"
      [] OTHER -> "skip"

\* the arm of "match unsafe { try_map_page(..) }" that is taken, arms tried
\* in the order they are written
MatchArm(result, a) ==
    CASE result = "Ok" -> "ok"
      [] result = "FrameAllocationFailed" /\ a < MaxAttempts -> "retry"
      [] result = "PageAlreadyMapped" -> "skip"
      [] OTHER -> "return"

\* Ok(_) => break
MatchOk ==
    /\ heap_pc = "match"
    /\ MatchArm(try_result, attempts) = "ok"
    /\ NextPage
    /\ UNCHANGED <<translations, premapped, tables_missing, frame, try_result,
                   heap_result, allocator_inits>>
    /\ UNCHANGED allocVars

\* Err(MapToError::FrameAllocationFailed) if attempts < max_attempts =>
\*     { attempts += 1; continue; }
MatchRetry ==
    /\ heap_pc = "match"
    /\ MatchArm(try_result, attempts) = "retry"
    /\ attempts' = attempts + 1
    /\ heap_pc' = "try_map_page"
    /\ UNCHANGED <<translations, premapped, tables_missing, page, frame,
                   try_result, heap_result, allocator_inits, faf_on_page>>
    /\ UNCHANGED allocVars

\* Err(MapToError::PageAlreadyMapped(_)) => { println!(..); break; }
MatchAlreadyMapped ==
    /\ heap_pc = "match"
    /\ MatchArm(try_result, attempts) = "skip"
    /\ NextPage
    /\ UNCHANGED <<translations, premapped, tables_missing, frame, try_result,
                   heap_result, allocator_inits>>
    /\ UNCHANGED allocVars

\* a slip: the last arm leaves the loop instead of the function
EscalateBreaks == "init_allocator"

\* where "return Err(e)" continues: init_heap is left
EscalateTo == "returned"

\* Err(e) => return Err(e)
MatchEscalate ==
    /\ heap_pc = "match"
    /\ MatchArm(try_result, attempts) = "return"
    /\ heap_result' = try_result
    /\ heap_pc' = EscalateTo
    /\ UNCHANGED <<translations, premapped, tables_missing, page, attempts,
                   frame, try_result, allocator_inits, faf_on_page>>
    /\ UNCHANGED allocVars

\* after the loop: ALLOCATOR.lock().init(HEAP_START as *mut u8, HEAP_SIZE);
\* Ok(())
AllocatorInit ==
    /\ heap_pc = "init_allocator"
    /\ allocator_inits' = allocator_inits + 1
    /\ heap_result' = "Ok"
    /\ heap_pc' = "returned"
    /\ UNCHANGED <<translations, premapped, tables_missing, page, attempts,
                   frame, try_result, faf_on_page>>
    /\ UNCHANGED allocVars

\* kernel_main: BootInfoFrameAllocator::init(&boot_info.memory_map), then
\* init_heap(&mut mapper, &mut frame_allocator) is entered, once; pages of
\* the heap range may be mapped already, each to a frame of its own
InitHeap ==
    /\ memory_map \in HeapMaps
    /\ next = 0
    /\ allocated_frames = [i \in 0..(AllocatedFramesLen - 1) |-> 0]
    /\ allocated_count = 0
    /\ issued = <<>>
    /\ lastAlloc = <<>>
    /\ tables_missing \in 0..MaxNewTables
    /\ \E pre \in SUBSET HeapPageRange :
           /\ pre = {} \/ tables_missing = 0
           /\ translations =
                  [p \in HeapPageRange |->
                      IF p \in pre
                      THEN <<[frame |-> PremappedFrame(p), flags |-> "PRESENT"]>>
                      ELSE <<>>]
    /\ premapped = translations
    /\ page = 0
    /\ attempts = 0
    /\ heap_pc = "try_map_page"
    /\ frame = 0
    /\ try_result = "none"
    /\ heap_result = "none"
    /\ allocator_inits = 0
    /\ faf_on_page = 0
    /\ QueueNew(0)
    /\ PopIdle
    /\ ObsInit
    /\ MachineReset

NextHeap ==
    /\ \/ TryMapPageAllocate
       \/ MapToCreateTable
       \/ MapToInstall
       \/ MatchOk
       \/ MatchRetry
       \/ MatchAlreadyMapped
       \/ MatchEscalate
       \/ AllocatorInit
    /\ UNCHANGED <<queueVars, popVars, obsVars, isrVars, logVars>>

SpecHeap == InitHeap /\ [][NextHeap]_vars

(* ------------------------------------------------------ claims: init_heap *)
\* C13: when the frame allocator runs out before every heap page is mapped,
\* init_heap returns FrameAllocationFailed only after the retry arm has run 3
\* times for the page it fails on, every page before that one has its
\* translation, and a run that returns Ok never saw the allocator run out.
C13_ExhaustionSurfaces ==
    /\ (heap_result = "FrameAllocationFailed")
       => /\ attempts = MaxAttempts
          /\ lastAlloc = <<>>
          /\ next = Len(UsableFrames(memory_map))
          /\ page < HeapPages
          /\ \A p \in 0..(page - 1) : translations[p] # <<>>
    /\ (heap_result = "Ok") => lastAlloc # <<>>

\* C13 witness: the memory map has one frame less than the heap has pages;
\* the run mapped every page but the last and returned the error for the last
C13_Witness ==
    /\ heap_result = "FrameAllocationFailed"
    /\ page = HeapPages - 1
    /\ Len(issued) = HeapPages - 1
    /\ translations[page] = <<>>
    /\ \A p \in 0..(page - 1) :
           premapped[p] = <<>> /\ translations[p] # <<>>

\* C14: no heap page sees more than 3 mapping attempts that fail with
\* FrameAllocationFailed.
C14_AtMostThreeFailedAttempts == faf_on_page <= MaxAttempts

\* C15: a PageAlreadyMapped result makes init_heap go to the next page with
\* no retry and no error returned, leaving every translation as it is, and
\* the only error init_heap returns is FrameAllocationFailed.
C15_AlreadyMappedSkipped ==
    /\ [][ (heap_pc = "match" /\ try_result = "PageAlreadyMapped")
           => /\ page' = page + 1
              /\ attempts' = 0
              /\ heap_result' = "none"
              /\ heap_pc' \in {"try_map_page", "init_allocator"}
              /\ translations' = translations ]_vars
    /\ [](heap_result \in {"none", "Ok", "FrameAllocationFailed"})

\* C15 witness: every heap page was mapped already, each try_map_page
\* reported PageAlreadyMapped and init_heap returned Ok
C15_Witness ==
    /\ heap_result = "Ok"
    /\ \A p \in HeapPageRange : premapped[p] # <<>>
    /\ Len(issued) = HeapPages
    /\ try_result = "PageAlreadyMapped"

\* C16: a heap page that had a translation when init_heap was entered keeps
\* exactly that translation, frame and flags, throughout the run.
C16_MappedPagesKept ==
    \A p \in HeapPageRange :
        premapped[p] # <<>> => translations[p] = premapped[p]

\* C16 witness: init_heap has returned Ok over a range in which one page was
\* mapped already and another was mapped by this run
C16_Witness ==
    /\ heap_result = "Ok"
    /\ \E p, q \in HeapPageRange :
           /\ premapped[p] # <<>>
           /\ premapped[q] = <<>>
           /\ translations[q] # <<>>

\* C17: when init_heap has returned Ok, every heap page has a translation
\* and no two heap pages are mapped to the same frame.
C17_OkMeansBackedDistinct ==
    (heap_result = "Ok")
    => /\ \A p \in HeapPageRange : translations[p] # <<>>
       /\ \A p, q \in HeapPageRange :
              p # q => translations[p][1].frame # translations[q][1].frame

\* C17 witness: starting with no page mapped and no page table present, the
\* run took a frame for each table and each page and returned Ok
C17_Witness ==
    /\ heap_result = "Ok"
    /\ \A p \in HeapPageRange : premapped[p] = <<>>
    /\ Len(issued) = HeapPages + MaxNewTables

\* C18: the dynamic allocator is initialised at most once, only when the loop
\* has gone through every heap page and each has its translation, and never
\* in a run that returns an error.
C18_AllocatorInitAfterAllPages ==
    /\ allocator_inits <= 1
    /\ (allocator_inits = 1)
       => /\ page = HeapPages
          /\ heap_result = "Ok"
          /\ \A p \in HeapPageRange : translations[p] # <<>>
    /\ (heap_result \notin {"none", "Ok"}) => allocator_inits = 0

\* C18 witness: the allocator was initialised after a run that skipped the
\* first page as already mapped and mapped the last page itself
C18_Witness ==
    /\ allocator_inits = 1
    /\ heap_pc = "returned"
    /\ premapped[HeapPages - 1] = <<>>
    /\ translations[HeapPages - 1] # <<>>
    /\ premapped[0] # <<>>

\* C19 as stated: after a mapping attempt that failed with
\* FrameAllocationFailed the page has no translation.
C19_FailedAttemptNoTranslation ==
    (heap_pc = "match" /\ try_result = "FrameAllocationFailed")
    => translations[page] = <<>>

\* C19: a mapping attempt that fails with FrameAllocationFailed installs
\* nothing for the page: its translation is what it was when init_heap was
\* entered (none, or the mapping the page already had).
C19_FailedAttemptInstallsNothing ==
    (heap_pc = "match" /\ try_result = "FrameAllocationFailed")
    => translations[page] = premapped[page]

\* C19 witness: the frame for the page was found and the attempt failed for
\* want of a frame for an intermediate page table
C19_Witness ==
    /\ heap_pc = "match"
    /\ try_result = "FrameAllocationFailed"
    /\ tables_missing > 0
    /\ Len(issued) > 0
    /\ frame = issued[1]

(* ------------------------------------- foreground: boot and command loop *)
\* the foreground runs only while no handler runs (one core; a handler runs
\* to completion before the interrupted code resumes)
FgRuns == isr_pc = "none" /\ ~faulted

Held(l, who) == [lock EXCEPT ![l] = who]

\* lib.rs init(): init_idt(), then PICS.lock().initialize() with interrupts
\* still off (the guard is dropped at the end of the statement)
InitPics ==
    /\ FgRuns
    /\ fg_pc = "init_pics"
    /\ lock["PICS"] = "free"
    /\ fg_pc' = "enable"
    /\ UNCHANGED <<lock, iflag, isr_pc, in_service, port60, scancode, queue_some,
                   kbd_initialized, dispatched, kbd_ready, decoded>>
    /\ UNCHANGED <<queueVars, popVars, obsVars, allocVars, heapVars, logVars>>

\* lib.rs init(): x86_64::instructions::interrupts::enable()
EnableInterrupts ==
    /\ FgRuns
    /\ fg_pc = "enable"
    /\ iflag' = TRUE
    /\ fg_pc' = "change_theme"
    /\ UNCHANGED <<lock, isr_pc, in_service, port60, scancode, queue_some,
                   kbd_initialized, dispatched, kbd_ready, decoded>>
    /\ UNCHANGED <<queueVars, popVars, obsVars, allocVars, heapVars, logVars>>

\* kernel_main: change_theme(DOSClassic) -> WRITER.lock().set_color(..),
\* taken with interrupts enabled
ChangeThemeLock ==
    /\ FgRuns
    /\ fg_pc = "change_theme"
    /\ lock["WRITER"] = "free"
    /\ lock' = Held("WRITER", "fg")
    /\ fg_pc' = "change_theme_locked"
    /\ UNCHANGED <<iflag, isr_pc, in_service, port60, scancode, queue_some,
                   kbd_initialized, dispatched, kbd_ready, decoded>>
    /\ UNCHANGED <<queueVars, popVars, obsVars, allocVars, heapVars, logVars>>

\* the guard of WRITER.lock() is dropped at the end of the statement
ChangeThemeUnlock ==
    /\ FgRuns
    /\ fg_pc = "change_theme_locked"
    /\ lock' = Held("WRITER", "free")
    /\ fg_pc' = "init_heap"
    /\ UNCHANGED <<iflag, isr_pc, in_service, port60, scancode, queue_some,
                   kbd_initialized, dispatched, kbd_ready, decoded>>
    /\ UNCHANGED <<queueVars, popVars, obsVars, allocVars, heapVars, logVars>>

\* a slip: the Err arm of the match on init_heap halts the boot
AfterInitHeapHalts(result) ==
    IF result = "FrameAllocationFailed" THEN "halted" ELSE "kbd_init"

\* kernel_main: both arms of "match memory::init_heap(..)" only print and
\* fall through to step 3, keyboard initialisation
AfterInitHeap(result) == "kbd_init"

\* kernel_main steps 1 and 2: memory::init, BootInfoFrameAllocator::init and
\* init_heap; whatever init_heap returns, kernel_main goes on to step 3
\* (the allocator itself is the subject of SpecAlloc)
MemoryInit ==
    /\ FgRuns
    /\ fg_pc = "init_heap"
    /\ fg_pc' = AfterInitHeap(heap_result)
    /\ UNCHANGED <<lock, iflag, isr_pc, in_service, port60, scancode, queue_some,
                   kbd_initialized, dispatched, kbd_ready, decoded>>
    /\ UNCHANGED <<queueVars, popVars, obsVars, allocVars, heapVars, logVars>>

\* keyboard::init: let mut scancode_queue = SCANCODE_QUEUE.lock()
KeyboardInitLock ==
    /\ FgRuns
    /\ fg_pc = "kbd_init"
    /\ lock["SCANCODE_QUEUE"] = "free"
    /\ lock' = Held("SCANCODE_QUEUE", "fg")
    /\ fg_pc' = "kbd_init_locked"
    /\ UNCHANGED <<iflag, isr_pc, in_service, port60, scancode, queue_some,
                   kbd_initialized, dispatched, kbd_ready, decoded>>
    /\ UNCHANGED <<queueVars, popVars, obsVars, allocVars, heapVars, logVars>>

\* keyboard::init: *scancode_queue = Some(ArrayQueue::new(SCANCODE_QUEUE_SIZE));
\* drop(scancode_queue); KEYBOARD_INITIALIZED.store(true); then kernel_main
\* runs on to hlt_loop()
KeyboardInitStore ==
    /\ FgRuns
    /\ fg_pc = "kbd_init_locked"
    /\ ScancodeQueueSize <= BufferLen
    /\ buffer' = [i \in 0..(BufferLen - 1) |-> DefaultByte]
    /\ head' = 0
    /\ tail' = 0
    /\ capacity' = ScancodeQueueSize
    /\ queue_some' = TRUE
    /\ lock' = Held("SCANCODE_QUEUE", "free")
    /\ kbd_initialized' = TRUE
    /\ fg_pc' = "hlt_loop"
    /\ UNCHANGED <<iflag, isr_pc, in_service, port60, scancode,
                   dispatched, kbd_ready, decoded>>
    /\ UNCHANGED <<popVars, obsVars, allocVars, heapVars, logVars>>

\* process_keypress (the consumer the foreground delegates to; hlt_loop
\* itself calls nothing): let mut keyboard = KEYBOARD.lock()
ProcessKeypressLock ==
    /\ FgRuns
    /\ fg_pc = "hlt_loop"
    /\ lock["KEYBOARD"] = "free"
    /\ lock' = Held("KEYBOARD", "fg")
    /\ fg_pc' = "pk_get"
    /\ UNCHANGED <<iflag, isr_pc, in_service, port60, scancode, queue_some,
                   kbd_initialized, dispatched, kbd_ready, decoded>>
    /\ UNCHANGED <<queueVars, popVars, obsVars, allocVars, heapVars, logVars>>

\* get_scancode: is_initialized() check, then SCANCODE_QUEUE.try_lock();
\* on None process_keypress returns (its KEYBOARD guard is dropped)
GetScancodeTryLock ==
    /\ FgRuns
    /\ fg_pc = "pk_get"
    /\ IF kbd_initialized /\ lock["SCANCODE_QUEUE"] = "free"
       THEN /\ lock' = Held("SCANCODE_QUEUE", "fg")
            /\ fg_pc' = "pk_pop"
       ELSE /\ lock' = Held("KEYBOARD", "free")
            /\ fg_pc' = "hlt_loop"
    /\ UNCHANGED <<iflag, isr_pc, in_service, port60, scancode, queue_some,
                   kbd_initialized, dispatched, kbd_ready, decoded>>
    /\ UNCHANGED <<queueVars, popVars, obsVars, allocVars, heapVars, logVars>>

\* get_scancode: "return queue.pop()" under the try_lock guard, which is
\* dropped on return
GetScancodePop ==
    /\ FgRuns
    /\ fg_pc = "pk_pop"
    /\ queue_some
    /\ Pop
    /\ IF lastResult' = "Some"
       THEN /\ lock' = Held("SCANCODE_QUEUE", "free")
            /\ fg_pc' = "pk_decode"
       ELSE /\ lock' = [lock EXCEPT !["SCANCODE_QUEUE"] = "free",
                                    !["KEYBOARD"] = "free"]
            /\ fg_pc' = "hlt_loop"
    /\ UNCHANGED <<iflag, isr_pc, in_service, port60, scancode, queue_some,
                   kbd_initialized, dispatched, kbd_ready, decoded>>
    /\ UNCHANGED <<allocVars, heapVars, logVars>>

\* process_keypress: keyboard.add_byte(scancode), process_keyevent,
\* handle_character (UI_STATE.try_lock()); the KEYBOARD guard is dropped
ProcessKeypressDecode ==
    /\ FgRuns
    /\ fg_pc = "pk_decode"
    /\ decoded' = Append(decoded, <<"fg", lastValue>>)
    /\ lock' = Held("KEYBOARD", "free")
    /\ fg_pc' = "hlt_loop"
    /\ UNCHANGED <<iflag, isr_pc, in_service, port60, scancode, queue_some,
                   kbd_initialized, dispatched, kbd_ready>>
    /\ UNCHANGED <<queueVars, popVars, obsVars, allocVars, heapVars, logVars>>

(* ------------------------------------------------- interrupt handlers *)
\* the CPU takes an interrupt between two foreground instructions when
\* interrupts are enabled and no handler runs (handlers run with IF clear)
CanDispatch ==
    /\ iflag
    /\ isr_pc = "none"
    /\ in_service = 0
    /\ ~faulted
    /\ dispatched < MaxInterrupts

\* ArrayQueue has no is_full under src/; the full test of push
IsFull == capacity > 0 /\ PushIsFull(NextIndex(tail, capacity), head)

\* vector 32 -> timer_interrupt_handler
DispatchTimer ==
    /\ CanDispatch
    /\ isr_pc' = "timer_eoi"
    /\ in_service' = TimerVector
    /\ dispatched' = dispatched + 1
    /\ UNCHANGED <<lock, iflag, fg_pc, port60, scancode, queue_some,
                   kbd_initialized, kbd_ready, decoded>>
    /\ UNCHANGED <<queueVars, popVars, obsVars, allocVars, heapVars, logVars>>

\* timer_interrupt_handler: PICS.lock().notify_end_of_interrupt(Timer)
TimerEoi ==
    /\ isr_pc = "timer_eoi"
    /\ lock["PICS"] = "free"
    /\ in_service' = IF in_service = TimerVector THEN 0 ELSE in_service
    /\ isr_pc' = "none"
    /\ UNCHANGED <<lock, iflag, fg_pc, port60, scancode, queue_some,
                   kbd_initialized, dispatched, kbd_ready, decoded>>
    /\ UNCHANGED <<queueVars, popVars, obsVars, allocVars, heapVars, logVars>>

\* vector 33 -> keyboard_interrupt_handler, with byte b in port 0x60
DispatchKeyboard(b) ==
    /\ CanDispatch
    /\ isr_pc' = "kbd_println"
    /\ in_service' = KeyboardVector
    /\ port60' = b
    /\ kbd_ready' = (queue_some /\ ~IsFull)
    /\ dispatched' = dispatched + 1
    /\ UNCHANGED <<lock, iflag, fg_pc, scancode, queue_some,
                   kbd_initialized, decoded>>
    /\ UNCHANGED <<queueVars, popVars, obsVars, allocVars, heapVars, logVars>>

\* keyboard_interrupt_handler: println!("DEBUG: ..") -> _print ->
\* WRITER.lock().write_fmt(..), a spinning lock
KbdPrintln ==
    /\ isr_pc = "kbd_println"
    /\ lock["WRITER"] = "free"
    /\ isr_pc' = "kbd_read"
    /\ UNCHANGED <<lock, iflag, fg_pc, in_service, port60, scancode, queue_some,
                   kbd_initialized, dispatched, kbd_ready, decoded>>
    /\ UNCHANGED <<queueVars, popVars, obsVars, allocVars, heapVars, logVars>>

\* keyboard_interrupt_handler: let scancode: u8 = port.read()
KbdReadPort ==
    /\ isr_pc = "kbd_read"
    /\ scancode' = port60
    /\ isr_pc' = "kbd_handle"
    /\ UNCHANGED <<lock, iflag, fg_pc, in_service, port60, queue_some,
                   kbd_initialized, dispatched, kbd_ready, decoded>>
    /\ UNCHANGED <<queueVars, popVars, obsVars, allocVars, heapVars, logVars>>

\* handle_scancode: let mut keyboard = KEYBOARD.lock(), a spinning lock
KbdHandleLock ==
    /\ isr_pc = "kbd_handle"
    /\ lock["KEYBOARD"] = "free"
    /\ lock' = Held("KEYBOARD", "isr")
    /\ isr_pc' = "kbd_decode"
    /\ UNCHANGED <<iflag, fg_pc, in_service, port60, scancode, queue_some,
                   kbd_initialized, dispatched, kbd_ready, decoded>>
    /\ UNCHANGED <<queueVars, popVars, obsVars, allocVars, heapVars, logVars>>

\* handle_scancode: keyboard.add_byte(scancode) / process_keyevent in the
\* handler; the decoder (pc_keyboard) yields no key or a key, and a key goes
\* to process_special_key / process_normal_key
KbdDecode ==
    /\ isr_pc = "kbd_decode"
    /\ decoded' = Append(decoded, <<"isr", scancode>>)
    /\ \E key \in {"none", "char"} :
         IF key = "none"
         THEN /\ lock' = Held("KEYBOARD", "free")
              /\ isr_pc' = "kbd_eoi"
         ELSE /\ isr_pc' = "kbd_echo"
              /\ UNCHANGED lock
    /\ UNCHANGED <<iflag, fg_pc, in_service, port60, scancode, queue_some,
                   kbd_initialized, dispatched, kbd_ready>>
    /\ UNCHANGED <<queueVars, popVars, obsVars, allocVars, heapVars, logVars>>

\* handle_printable_character: CURRENT_LINE.lock().push(c); print!("{}", c)
\* -> WRITER.lock(), a spinning lock; then handle_scancode returns
KbdEcho ==
    /\ isr_pc = "kbd_echo"
    /\ lock["WRITER"] = "free"
    /\ lock' = Held("KEYBOARD", "free")
    /\ isr_pc' = "kbd_eoi"
    /\ UNCHANGED <<iflag, fg_pc, in_service, port60, scancode, queue_some,
                   kbd_initialized, dispatched, kbd_ready, decoded>>
    /\ UNCHANGED <<queueVars, popVars, obsVars, allocVars, heapVars, logVars>>

\* keyboard_interrupt_handler: PICS.lock().notify_end_of_interrupt(Keyboard)
KbdEoi ==
    /\ isr_pc = "kbd_eoi"
    /\ lock["PICS"] = "free"
    /\ in_service' = IF in_service = KeyboardVector THEN 0 ELSE in_service
    /\ isr_pc' = "none"
    /\ UNCHANGED <<lock, iflag, fg_pc, port60, scancode, queue_some,
                   kbd_initialized, dispatched, kbd_ready, decoded>>
    /\ UNCHANGED <<queueVars, popVars, obsVars, allocVars, heapVars, logVars>>

\* add_scancode(b) called on the producer side, in interrupt context (no
\* code under src/ calls it; the keyboard handler above does not)
AddScancodeEnter(b) ==
    /\ CanDispatch
    /\ Len(accepted) < MaxPushes
    /\ scancode' = b
    /\ isr_pc' = "add_lock"
    /\ dispatched' = dispatched + 1
    /\ UNCHANGED <<lock, iflag, fg_pc, in_service, port60, queue_some,
                   kbd_initialized, kbd_ready, decoded>>
    /\ UNCHANGED <<queueVars, popVars, obsVars, allocVars, heapVars, logVars>>

\* add_scancode: SCANCODE_QUEUE.lock(), a spinning lock
AddScancodeLock ==
    /\ isr_pc = "add_lock"
    /\ lock["SCANCODE_QUEUE"] = "free"
    /\ lock' = Held("SCANCODE_QUEUE", "isr")
    /\ isr_pc' = "add_body"
    /\ UNCHANGED <<iflag, fg_pc, in_service, port60, scancode, queue_some,
                   kbd_initialized, dispatched, kbd_ready, decoded>>
    /\ UNCHANGED <<queueVars, popVars, obsVars, allocVars, heapVars, logVars>>

\* add_scancode: the body under the guard: overflow warning, push, or the
\* "uninitialized" error; the guard is dropped on return
AddScancodeBody ==
    /\ isr_pc = "add_body"
    /\ IF queue_some /\ ~IsFull
       THEN Push(scancode)
       ELSE /\ lastOp' = "add_scancode"
            /\ lastResult' = IF queue_some THEN "overflow" ELSE "uninitialized"
            /\ UNCHANGED <<accepted, popped, pushCalls, lastValue, faulted>>
            /\ UNCHANGED <<queueVars, popVars>>
    /\ lock' = Held("SCANCODE_QUEUE", "free")
    /\ isr_pc' = "none"
    /\ UNCHANGED <<iflag, fg_pc, in_service, port60, scancode, queue_some,
                   kbd_initialized, dispatched, kbd_ready, decoded>>
    /\ UNCHANGED <<allocVars, heapVars, logVars>>

\* the lock the running handler is about to take with a spinning lock()
WantedLock ==
    CASE isr_pc \in {"kbd_println", "kbd_echo"} -> "WRITER"
      [] isr_pc = "kbd_handle" -> "KEYBOARD"
      [] isr_pc \in {"timer_eoi", "kbd_eoi"} -> "PICS"
      [] isr_pc = "add_lock" -> "SCANCODE_QUEUE"
      [] OTHER -> "none"

InitIsr ==
    /\ MachineReset
    /\ QueueNew(0)
    /\ PopIdle
    /\ ObsInit
    /\ AllocUnused
    /\ HeapUnused

FgStep ==
    \/ InitPics
    \/ EnableInterrupts
    \/ ChangeThemeLock
    \/ ChangeThemeUnlock
    \/ MemoryInit
    \/ KeyboardInitLock
    \/ KeyboardInitStore
    \/ ProcessKeypressLock
    \/ GetScancodeTryLock
    \/ GetScancodePop
    \/ ProcessKeypressDecode

Dispatch ==
    \/ DispatchTimer
    \/ \E b \in Bytes : DispatchKeyboard(b)
    \/ \E b \in Bytes : AddScancodeEnter(b)

IsrStep ==
    \/ TimerEoi
    \/ KbdPrintln
    \/ KbdReadPort
    \/ KbdHandleLock
    \/ KbdDecode
    \/ KbdEcho
    \/ KbdEoi
    \/ AddScancodeLock
    \/ AddScancodeBody

NextIsr == FgStep \/ Dispatch \/ IsrStep

SpecIsr == InitIsr /\ [][NextIsr]_vars

\* the CPU keeps executing the handler it has entered
SpecIsrFair == InitIsr /\ [][NextIsr]_vars /\ WF_vars(IsrStep)

(* ------------------------------------------------- the boot sequence *)
\* kernel_main is inside init_heap: one step of init_heap or try_map_page
BootHeapStep ==
    /\ FgRuns
    /\ fg_pc = "init_heap"
    /\ NextHeap

\* init_heap has returned and kernel_main matches on its result
BootMemoryInit ==
    /\ heap_pc = "returned"
    /\ MemoryInit

\* screamos::init() and kernel_main up to the foreground loop, with the run
\* of init_heap in place and no interrupt dispatched
NextBoot ==
    \/ InitPics
    \/ EnableInterrupts
    \/ ChangeThemeLock
    \/ ChangeThemeUnlock
    \/ BootHeapStep
    \/ BootMemoryInit
    \/ KeyboardInitLock
    \/ KeyboardInitStore

SpecBoot == InitHeap /\ [][NextBoot]_vars

\* the foreground code that the CPU keeps executing once it is under way:
\* boot, and a process_keypress call that has been entered. The call of
\* process_keypress itself is left out: hlt_loop makes none
FgContinue ==
    \/ InitPics
    \/ EnableInterrupts
    \/ ChangeThemeLock
    \/ ChangeThemeUnlock
    \/ MemoryInit
    \/ KeyboardInitLock
    \/ KeyboardInitStore
    \/ GetScancodeTryLock
    \/ GetScancodePop
    \/ ProcessKeypressDecode

\* the CPU keeps executing both the handler it has entered and the
\* foreground function it is in
SpecIsrFairFg ==
    InitIsr /\ [][NextIsr]_vars /\ WF_vars(IsrStep) /\ WF_vars(FgContinue)

(* ------------------------------------- the producer at a filling queue *)
\* fill levels of the scancode queue at which the run is taken up: one byte
\* short of full, and full (capacity - 1 bytes)
NearlyFull == {ScancodeQueueSize - 2, ScancodeQueueSize - 1}

\* the kernel after boot, in the foreground loop with interrupts enabled,
\* when the producer has filled the queue of SCANCODE_QUEUE_SIZE slots with
\* 0x1E bytes up to a level of NearlyFull (accepted and popped record the
\* bytes from here on)
InitProducer ==
    /\ \E h \in {0, 1} : \E n \in NearlyFull :
           /\ head = h
           /\ tail = (h + n) % ScancodeQueueSize
           /\ buffer = [i \in 0..(BufferLen - 1) |->
                           IF (i - h) % ScancodeQueueSize < n THEN 30 ELSE DefaultByte]
    /\ capacity = ScancodeQueueSize
    /\ PopIdle
    /\ ObsInit
    /\ AllocUnused
    /\ HeapUnused
    /\ lock = [l \in Locks |-> "free"]
    /\ iflag = TRUE
    /\ fg_pc = "hlt_loop"
    /\ isr_pc = "none"
    /\ in_service = 0
    /\ port60 = DefaultByte
    /\ scancode = DefaultByte
    /\ queue_some = TRUE
    /\ kbd_initialized = TRUE
    /\ dispatched = 0
    /\ kbd_ready = FALSE
    /\ decoded = <<>>
    /\ system_timer = 0
    /\ DiagnosticsNew

\* add_scancode called in interrupt context against process_keypress in the
\* foreground
NextProducer ==
    \/ ProcessKeypressLock
    \/ GetScancodeTryLock
    \/ GetScancodePop
    \/ ProcessKeypressDecode
    \/ \E b \in Bytes : AddScancodeEnter(b)
    \/ AddScancodeLock
    \/ AddScancodeBody

SpecProducer == InitProducer /\ [][NextProducer]_vars

(* ------------------------------------------- claims: interrupt handlers *)
\* C6: the state "a timer or keyboard handler is spinning on a lock that the
\* preempted foreground code holds" is unreachable.
C6_IsrNeverWaitsOnForegroundLock ==
    ~(/\ in_service \in {TimerVector, KeyboardVector}
      /\ WantedLock \in Locks
      /\ lock[WantedLock] = "fg")

\* C7: add_scancode never waits for the queue lock: it is never at its
\* lock() while the foreground get_scancode holds the queue.
C7_AddScancodeNeverWaits ==
    ~(/\ isr_pc = "add_lock"
      /\ fg_pc = "pk_pop"
      /\ lock["SCANCODE_QUEUE"] = "fg")

\* C8: when the keyboard handler, dispatched with byte b while the queue was
\* constructed and not full, has handled b, b is the newest element of the
\* scancode queue.
C8_KeyboardByteQueued ==
    (isr_pc = "kbd_eoi" /\ kbd_ready)
        => (Stored # <<>> /\ Stored[Len(Stored)] = scancode)

\* C9: every dispatched timer or keyboard interrupt is eventually
\* acknowledged with an end-of-interrupt for its vector.
C9_EoiFollowsDispatch ==
    (in_service \in {TimerVector, KeyboardVector}) ~> (in_service = 0)

(* ---------------------------------------------- claims: the boot sequence *)
\* C20: init_heap, with the frame allocator and the page mapper it drives,
\* runs only while interrupts are disabled: when kernel_main is about to
\* enter memory initialisation the interrupt flag is still clear.
C20_HeapBeforeInterrupts == (fg_pc = "init_heap") => ~iflag

\* C21: the scancode queue is constructed before interrupts are enabled:
\* whenever the interrupt flag is set, and whenever a keyboard interrupt is
\* in service, SCANCODE_QUEUE holds Some(queue).
C21_QueueBeforeInterrupts ==
    /\ iflag => queue_some
    /\ (in_service = KeyboardVector) => queue_some

\* C22 as stated: once init_heap has returned an error the boot sequence
\* goes no further: kernel_main never gets past heap initialisation.
C22_HeapErrorHaltsBoot ==
    (heap_result = "FrameAllocationFailed") => fg_pc = "init_heap"

\* C22: when init_heap has returned an error, kernel_main goes on to
\* keyboard initialisation all the same, and the dynamic allocator is left
\* uninitialised for the rest of the boot.
C22_HeapErrorBootContinues ==
    /\ [][ (heap_result = "FrameAllocationFailed" /\ fg_pc = "init_heap"
               /\ fg_pc' # fg_pc)
           => fg_pc' = "kbd_init" ]_vars
    /\ []((heap_result = "FrameAllocationFailed") => allocator_inits = 0)

\* C22 witness: init_heap returned FrameAllocationFailed and the boot went on
\* to construct the scancode queue and reach the foreground loop
C22_Witness ==
    /\ heap_result = "FrameAllocationFailed"
    /\ fg_pc = "hlt_loop"
    /\ queue_some
    /\ allocator_inits = 0

(* ------------------------------------------------ claims: the producer *)
\* C23: a scancode that arrives while the queue is full never makes the
\* producer wait: add_scancode is never at its lock() with the queue full
\* and the queue guard held by the code it interrupted.
C23_FullQueueProducerNeverWaits ==
    ~(/\ isr_pc = "add_lock"
      /\ queue_some
      /\ IsFull
      /\ lock["SCANCODE_QUEUE"] = "fg")

\* C24: a scancode that arrives before the queue is constructed never stops
\* the kernel: add_scancode is never at its lock() with the queue still None
\* and the queue guard held by the code it interrupted.
C24_UnconstructedQueueKeepsRunning ==
    ~(/\ isr_pc = "add_lock"
      /\ ~queue_some
      /\ lock["SCANCODE_QUEUE"] = "fg")

\* C25: every scancode decoding step executes in the foreground context: no
\* byte is handed to the decoder by an interrupt handler.
C25_DecodingOnlyInForeground ==
    \A i \in 1..Len(decoded) : decoded[i][1] = "fg"

\* C26: every byte accepted by push is eventually returned by a pop of the
\* foreground: once n bytes have been accepted, n bytes are eventually popped.
C26_QueueDrained ==
    \A n \in 1..MaxPushes : (Len(accepted) >= n) ~> (Len(popped) >= n)

\* C27: the system tick never decreases, and the step that completes a timer
\* interrupt leaves it strictly greater than it was.
C27_TimerDrivesTick ==
    [][ /\ system_timer' >= system_timer
        /\ (in_service = TimerVector /\ in_service' = 0)
               => system_timer' > system_timer ]_vars

(* ------------------------- logging, file creation and error reporting *)
\* most warnings reported in a run
MaxWarnings == 1

\* severity_index of handle_error
SevWarning == 0
SevError == 1
SevCritical == 2
SevFatal == 3

\* error domains: one with a recovery that takes the file system, one with
\* a recovery that takes nothing, one without a recovery
Domains == {"Filesystem", "Memory", "IO"}

\* the innermost frame of the foreground's stack
Top == stack[Len(stack)]

\* the stack with the innermost frame moved to pc
AtPc(pc) == [stack EXCEPT ![Len(stack)].pc = pc]

\* the foreground is inside a call, at pc
At(pc) == ~faulted /\ stack # <<>> /\ Top.pc = pc

\* the frame of a log_*! macro: it starts at LOGGER.lock()
LogFrame(level) == [pc |-> "log_lock", a |-> level, b |-> "log"]

\* the level handle_error logs a severity at: log_warn!, log_error!, log_crit!
LogLevelOf(sev) ==
    CASE sev = SevWarning -> LevelWarning
      [] sev = SevError -> LevelError
      [] OTHER -> LevelCritical

\* the spinning Mutex::lock() calls: position -> the lock, whether the guard
\* outlives the statement, and the position after it
LockTable ==
    [pc \in {"log_lock", "log_print", "append_lock", "fs_caller", "re_lock",
             "recovery_fs", "safe_writer", "safe_println", "fatal_writer",
             "fatal_println", "ki_lock"} |->
        CASE pc = "log_lock"      -> [l |-> "LOGGER",        hold |-> TRUE,  to |-> "log_body"]
          [] pc = "log_print"     -> [l |-> "WRITER",        hold |-> FALSE, to |-> "log_file"]
          [] pc = "append_lock"   -> [l |-> "FILESYSTEM",    hold |-> TRUE,  to |-> "append_create"]
          [] pc = "fs_caller"     -> [l |-> "FILESYSTEM",    hold |-> TRUE,  to |-> "fs_caller_create"]
          [] pc = "re_lock"       -> [l |-> "ERROR_HANDLER", hold |-> TRUE,  to |-> "handle_error"]
          [] pc = "recovery_fs"   -> [l |-> "FILESYSTEM",    hold |-> FALSE, to |-> "recovery_done"]
          [] pc = "safe_writer"   -> [l |-> "WRITER",        hold |-> TRUE,  to |-> "safe_println"]
          [] pc = "safe_println"  -> [l |-> "WRITER",        hold |-> FALSE, to |-> "safe_ret"]
          [] pc = "fatal_writer"  -> [l |-> "WRITER",        hold |-> TRUE,  to |-> "fatal_println"]
          [] pc = "fatal_println" -> [l |-> "WRITER",        hold |-> FALSE, to |-> "fatal_ret"]
          [] pc = "ki_lock"       -> [l |-> "SCANCODE_QUEUE", hold |-> TRUE, to |-> "ki_store"]]

\* the guards dropped at the end of a function: position -> the lock and the
\* position after it ("return": the function returns to its caller)
UnlockTable ==
    [pc \in {"append_ret", "log_ret", "fs_caller_ret", "safe_ret", "fatal_ret",
             "he_ret"} |->
        CASE pc = "append_ret"    -> [l |-> "FILESYSTEM",    to |-> "log_ret"]
          [] pc = "log_ret"       -> [l |-> "LOGGER",        to |-> "return"]
          [] pc = "fs_caller_ret" -> [l |-> "FILESYSTEM",    to |-> "return"]
          [] pc = "safe_ret"      -> [l |-> "WRITER",        to |-> "he_ret"]
          [] pc = "fatal_ret"     -> [l |-> "WRITER",        to |-> "he_ret"]
          [] pc = "he_ret"        -> [l |-> "ERROR_HANDLER", to |-> "return"]]

\* the innermost function returns to its caller
Return == stack' = SubSeq(stack, 1, Len(stack) - 1)

\* the innermost function continues at pc once the call of frame f returns
Call(pc, f) == stack' = Append(AtPc(pc), f)

\* the lock the foreground is about to take with a spinning lock()
WantedByCall ==
    IF stack # <<>> /\ Top.pc \in DOMAIN LockTable
    THEN LockTable[Top.pc].l ELSE "none"

\* the variables the diagnostics leave alone
loggerConf == <<system_timer, log_level, log_to_console, log_to_file>>
handlerVars == <<error_count, safe_mode>>
coreVars == <<iflag, fg_pc, isr_pc, in_service, port60, scancode,
              dispatched, kbd_ready, decoded>>
kbdVars == <<queue_some, kbd_initialized>>
idleVars == <<popVars, allocVars, heapVars>>

\* Mutex::lock(): the guard is taken once the lock is free; a print! or a
\* lock-and-drop statement gives it back at once
LockStep ==
    /\ ~faulted
    /\ stack # <<>>
    /\ Top.pc \in DOMAIN LockTable
    /\ LET e == LockTable[Top.pc]
       IN  /\ lock[e.l] = "free"
           /\ lock' = IF e.hold THEN Held(e.l, "fg") ELSE lock
           /\ stack' = AtPc(e.to)
    /\ UNCHANGED <<loggerConf, file_count, handlerVars, coreVars,
                   kbdVars, queueVars, obsVars, idleVars>>

\* the end of a function that owns a guard
UnlockStep ==
    /\ ~faulted
    /\ stack # <<>>
    /\ Top.pc \in DOMAIN UnlockTable
    /\ LET e == UnlockTable[Top.pc]
       IN  /\ lock' = Held(e.l, "free")
           /\ IF e.to = "return"
              THEN Return
              ELSE stack' = AtPc(e.to)
    /\ UNCHANGED <<loggerConf, file_count, handlerVars, coreVars,
                   kbdVars, queueVars, obsVars, idleVars>>

\* the end of a function that owns no guard
ReturnStep ==
    /\ ~faulted
    /\ stack # <<>>
    /\ Top.pc \in {"cf_done", "gs_ret", "ki_ret"}
    /\ Return
    /\ UNCHANGED <<lock, loggerConf, file_count, handlerVars, coreVars,
                   kbdVars, queueVars, obsVars, idleVars>>

\* Logger::log after the console output: "if self.log_to_file" leads to
\* append_to_log_file, which begins with FILESYSTEM.lock()
AfterConsole == IF log_to_file THEN "append_lock" ELSE "log_ret"

\* Logger::log under the LOGGER guard: the level test, the entry stored in
\* the buffer, and the branch on log_to_console (print! takes WRITER)
LogBody ==
    /\ At("log_body")
    /\ stack' = AtPc(IF Top.a < log_level THEN "log_ret"
                     ELSE IF log_to_console THEN "log_print"
                     ELSE "log_file")
    /\ UNCHANGED <<lock, loggerConf, file_count, handlerVars,
                   coreVars, kbdVars, queueVars, obsVars, idleVars>>

\* Logger::log: "if self.log_to_file { let _ = self.append_to_log_file(..) }"
LogFile ==
    /\ At("log_file")
    /\ stack' = AtPc(AfterConsole)
    /\ UNCHANGED <<lock, loggerConf, file_count, handlerVars,
                   coreVars, kbdVars, queueVars, obsVars, idleVars>>

\* append_to_log_file under the FILESYSTEM guard:
\* fs.create_file("system.log", new_content.as_str()); the content is a
\* SimpleString, shorter than MAX_FILE_SIZE
AppendCreate ==
    /\ At("append_create")
    /\ Call("append_ret", [pc |-> "create_file", a |-> 0, b |-> "system.log"])
    /\ UNCHANGED <<lock, loggerConf, file_count, handlerVars,
                   coreVars, kbdVars, queueVars, obsVars, idleVars>>

\* SimpleFileSystem::create_file (a = 1: the content is too large): the
\* error paths call log_error! and then report_filesystem_error, the
\* success path adds the file and calls log_info!
CreateFile ==
    /\ At("create_file")
    /\ IF file_count >= MaxFiles \/ Top.a = 1
       THEN /\ Call("cf_report", LogFrame(LevelError))
            /\ UNCHANGED file_count
       ELSE /\ file_count' = file_count + 1
            /\ Call("cf_done", LogFrame(LevelInfo))
    /\ UNCHANGED <<lock, loggerConf, handlerVars,
                   coreVars, kbdVars, queueVars, obsVars, idleVars>>

\* create_file: report_filesystem_error(error_msg).ok(); return Err(..)
CreateFileReport ==
    /\ At("cf_report")
    /\ Call("cf_done", [pc |-> "re_lock", a |-> SevError, b |-> "Filesystem"])
    /\ UNCHANGED <<lock, loggerConf, file_count, handlerVars,
                   coreVars, kbdVars, queueVars, obsVars, idleVars>>

\* a caller of create_file that holds the FILESYSTEM guard, as the file
\* system test of run_self_tests does
FsCallerCreate ==
    /\ At("fs_caller_create")
    /\ Call("fs_caller_ret", [pc |-> "create_file", a |-> Top.a, b |-> "test_file.txt"])
    /\ UNCHANGED <<lock, loggerConf, file_count, handlerVars,
                   coreVars, kbdVars, queueVars, obsVars, idleVars>>

\* handle_error under the ERROR_HANDLER guard: the counter of the severity,
\* the error stored in last_errors, then the log macro of the severity
HandleError ==
    /\ At("handle_error")
    /\ error_count' = [error_count EXCEPT ![Top.a] = @ + 1]
    /\ Call("he_logged", LogFrame(LogLevelOf(Top.a)))
    /\ UNCHANGED <<lock, loggerConf, file_count, safe_mode,
                   coreVars, kbdVars, queueVars, obsVars, idleVars>>

\* where perform_recovery continues after its first log_info!
RecoveryNext(domain) ==
    CASE domain = "Filesystem" -> "recovery_fs"
      [] domain \in {"Memory", "Hardware"} -> "recovery_done"
      [] OTHER -> "he_check"

\* handle_error after the log macro: Warning and Error go on to the safe
\* mode test, Critical calls perform_recovery (which begins with log_info!),
\* Fatal calls show_fatal_error (which begins with WRITER.lock())
HeLogged ==
    /\ At("he_logged")
    /\ IF Top.a \in {SevWarning, SevError}
       THEN stack' = AtPc("he_check")
       ELSE IF Top.a = SevCritical
       THEN Call(RecoveryNext(Top.b), LogFrame(LevelInfo))
       ELSE stack' = AtPc("fatal_writer")
    /\ UNCHANGED <<lock, loggerConf, file_count, handlerVars,
                   coreVars, kbdVars, queueVars, obsVars, idleVars>>

\* perform_recovery: the closing log_info! of a domain that has a recovery
RecoveryDone ==
    /\ At("recovery_done")
    /\ Call("he_check", LogFrame(LevelInfo))
    /\ UNCHANGED <<lock, loggerConf, file_count, handlerVars,
                   coreVars, kbdVars, queueVars, obsVars, idleVars>>

\* error_count[2] >= 3 || error_count[1] >= 10
SafeModeDue == error_count[SevCritical] >= 3 \/ error_count[SevError] >= 10

\* handle_error: the safe mode test; enter_safe_mode sets the flag, calls
\* log_warn! and goes on to WRITER.lock() and the banner
HeCheck ==
    /\ At("he_check")
    /\ IF SafeModeDue /\ ~safe_mode
       THEN /\ safe_mode' = TRUE
            /\ Call("safe_writer", LogFrame(LevelWarning))
       ELSE /\ stack' = AtPc("he_ret")
            /\ UNCHANGED safe_mode
    /\ UNCHANGED <<lock, loggerConf, file_count, error_count,
                   coreVars, kbdVars, queueVars, obsVars, idleVars>>

\* keyboard::init: log_info!("Initializing keyboard")
KiStart ==
    /\ At("ki_start")
    /\ Call("ki_lock", LogFrame(LevelInfo))
    /\ UNCHANGED <<lock, loggerConf, file_count, handlerVars,
                   coreVars, kbdVars, queueVars, obsVars, idleVars>>

\* keyboard::init under the SCANCODE_QUEUE guard: the queue is stored, the
\* guard dropped, KEYBOARD_INITIALIZED set, then log_info!
KiStore ==
    /\ At("ki_store")
    /\ ScancodeQueueSize <= BufferLen
    /\ buffer' = [i \in 0..(BufferLen - 1) |-> DefaultByte]
    /\ head' = 0
    /\ tail' = 0
    /\ capacity' = ScancodeQueueSize
    /\ queue_some' = TRUE
    /\ lock' = Held("SCANCODE_QUEUE", "free")
    /\ kbd_initialized' = TRUE
    /\ Call("ki_ret", LogFrame(LevelInfo))
    /\ UNCHANGED <<loggerConf, file_count, handlerVars,
                   coreVars, obsVars, idleVars>>

\* get_scancode: "if !is_initialized()" calls log_error! and returns None
GsCheck ==
    /\ At("gs_check")
    /\ IF ~kbd_initialized
       THEN Call("gs_ret", LogFrame(LevelError))
       ELSE stack' = AtPc("gs_try")
    /\ UNCHANGED <<lock, loggerConf, file_count, handlerVars,
                   coreVars, kbdVars, queueVars, obsVars, idleVars>>

\* get_scancode: SCANCODE_QUEUE.try_lock(); with the guard and Some(queue)
\* "return queue.pop()", else None (the guard is dropped on return)
GsTry ==
    /\ At("gs_try")
    /\ IF lock["SCANCODE_QUEUE"] = "free" /\ queue_some
       THEN /\ Pop
            /\ Return
       ELSE /\ Return
            /\ UNCHANGED <<queueVars, obsVars, popVars>>
    /\ UNCHANGED <<lock, loggerConf, file_count, handlerVars,
                   coreVars, kbdVars, allocVars, heapVars>>

\* the foreground is between two calls
Idle == ~faulted /\ stack = <<>>

\* the foreground enters a function with frame f
Enter(f) ==
    /\ Idle
    /\ stack' = <<f>>
    /\ UNCHANGED <<lock, loggerConf, file_count, handlerVars,
                   coreVars, kbdVars, queueVars, obsVars, idleVars>>

\* log_debug! .. log_crit!
CallLog(level) == Enter(LogFrame(level))

\* report_error(code, domain, severity, message)
CallReportError(sev, domain) ==
    /\ sev = SevWarning => error_count[SevWarning] < MaxWarnings
    /\ Enter([pc |-> "re_lock", a |-> sev, b |-> domain])

\* FILESYSTEM.lock() followed by fs.create_file(name, content)
\* (big = 1: content of MAX_FILE_SIZE bytes or more)
CallCreateFile(big) == Enter([pc |-> "fs_caller", a |-> big, b |-> "test_file.txt"])

\* kernel_main: screamos::keyboard::init()
CallKeyboardInit ==
    /\ ~kbd_initialized
    /\ Enter([pc |-> "ki_start", a |-> 0, b |-> "keyboard::init"])

\* process_keypress: get_scancode()
CallGetScancode == Enter([pc |-> "gs_check", a |-> 0, b |-> "get_scancode"])

\* LOGGER.lock().set_level(level)
SetLevel(level) ==
    /\ Idle
    /\ log_level' = level
    /\ UNCHANGED <<system_timer, log_to_console, log_to_file>>
    /\ UNCHANGED <<lock, stack, file_count, handlerVars,
                   coreVars, kbdVars, queueVars, obsVars, idleVars>>

\* LOGGER.lock().set_log_to_file(enabled)
SetLogToFile(enabled) ==
    /\ Idle
    /\ log_to_file' = enabled
    /\ UNCHANGED <<system_timer, log_level, log_to_console>>
    /\ UNCHANGED <<lock, stack, file_count, handlerVars,
                   coreVars, kbdVars, queueVars, obsVars, idleVars>>

\* file counts at which the run is taken up: one file short of full, and
\* full
FileCounts == {MaxFiles - 1, MaxFiles}

\* the kernel with its statics constructed, interrupts off, no call running
InitLog ==
    /\ QueueNew(0)
    /\ PopIdle
    /\ ObsInit
    /\ AllocUnused
    /\ HeapUnused
    /\ lock = [l \in Locks |-> "free"]
    /\ iflag = FALSE
    /\ fg_pc = "init_pics"
    /\ isr_pc = "none"
    /\ in_service = 0
    /\ port60 = DefaultByte
    /\ scancode = DefaultByte
    /\ queue_some = FALSE
    /\ kbd_initialized = FALSE
    /\ dispatched = 0
    /\ kbd_ready = FALSE
    /\ decoded = <<>>
    /\ system_timer = 0
    /\ log_level = LevelInfo
    /\ log_to_console = TRUE
    /\ log_to_file = TRUE
    /\ file_count \in FileCounts
    /\ error_count = [i \in 0..3 |-> 0]
    /\ safe_mode = FALSE
    /\ stack = <<>>

NextLog ==
    \/ \E level \in LevelDebug..LevelCritical : CallLog(level)
    \/ \E sev \in SevWarning..SevFatal : \E domain \in Domains :
           CallReportError(sev, domain)
    \/ \E big \in {0, 1} : CallCreateFile(big)
    \/ CallKeyboardInit
    \/ CallGetScancode
    \/ \E level \in {LevelInfo, LevelError} : SetLevel(level)
    \/ \E enabled \in BOOLEAN : SetLogToFile(enabled)
    \/ LockStep
    \/ UnlockStep
    \/ ReturnStep
    \/ LogBody
    \/ LogFile
    \/ AppendCreate
    \/ CreateFile
    \/ CreateFileReport
    \/ FsCallerCreate
    \/ HandleError
    \/ HeLogged
    \/ RecoveryDone
    \/ HeCheck
    \/ KiStart
    \/ KiStore
    \/ GsCheck
    \/ GsTry

SpecLog == InitLog /\ [][NextLog]_vars

(* ------------------------------------ claims: exhaustion, frames, indices *)
\* C31: once allocate_frame has returned None, every later call returns
\* None as well, without faulting and without changing the cursor or the
\* recent-issue record.
C31_ExhaustionStable ==
    [][ (/\ lastAlloc = <<>>
         /\ (issued # <<>> \/ UsableFrames(memory_map) = <<>>))
        => /\ lastAlloc' = <<>>
           /\ next' = next
           /\ allocated_frames' = allocated_frames
           /\ allocated_count' = allocated_count
           /\ issued' = issued
           /\ ~faulted' ]_vars

\* C31 witness: every usable frame of a map of several frames was issued,
\* after which a call returned None
C31_Witness ==
    /\ lastAlloc = <<>>
    /\ Len(issued) > 1
    /\ Len(issued) = Len(UsableFrames(memory_map))
    /\ next = Len(issued)

\* C32: every frame that init_heap takes from the frame allocator for a heap
\* page backs exactly one heap page once the mapping attempt it was taken
\* for has returned, whatever the outcome of that attempt.
C32_PageFrameBacksOnePage ==
    (/\ heap_pc = "match"
     /\ \E i \in 1..Len(issued) : issued[i] = frame)
    => Cardinality({p \in HeapPageRange :
                       /\ translations[p] # <<>>
                       /\ translations[p][1].frame = frame}) = 1

\* C33: push never changes head, pop never changes tail or any buffer slot,
\* and a failed push or an empty pop changes nothing of the queue.
C33_IndexOwnership ==
    [][ /\ (lastOp' = "push") =>
              /\ head' = head
              /\ (lastResult' # "Ok") => UNCHANGED queueVars
        /\ (lastOp' = "pop") =>
              /\ tail' = tail
              /\ buffer' = buffer
              /\ (lastResult' # "Some") => UNCHANGED queueVars ]_vars

\* C33 witness: a push was rejected by a full queue whose indices have moved
\* and whose free slot holds a byte other than the default
C33_Witness ==
    /\ lastOp = "push"
    /\ lastResult = "Err"
    /\ capacity = 3
    /\ head = 1
    /\ tail = 0
    /\ buffer[tail] = 30

\* C35: on a queue of capacity N >= 1, in every state reached by push, pop
\* and clear, head and tail are in 0..N-1, the queue is empty exactly when
\* head = tail, and len() is the number of accepted pushes minus the number
\* of successful pops since construction or the last clear, which lies in
\* 0..N-1.
C35_RingInvariant ==
    capacity >= 1 =>
        /\ head \in 0..(capacity - 1)
        /\ tail \in 0..(capacity - 1)
        /\ (Len(accepted) - Len(popped) = 0) <=> PopIsEmpty(head, tail)
        /\ QueueLen = Len(accepted) - Len(popped)
        /\ QueueLen \in 0..(capacity - 1)

\* C35 witness: a queue of capacity 3 holding two bytes around the wrap of
\* its tail
C35_Witness ==
    /\ capacity = 3
    /\ head = 2
    /\ tail = 1
    /\ Len(accepted) = 4
    /\ Len(popped) = 2

\* C36: for every capacity that ArrayQueue::new accepts, 0 and 1 included,
\* push and pop return a result without faulting.
C36_PushPopNeverFault ==
    /\ ~faulted
    /\ lastResult # "panic"

(* ------------------------------- claims: the consumer and the diagnostics *)
\* C34: get_scancode never blocks: it is never inside a call that waits for
\* a lock its own context holds (it returns None when the keyboard is not
\* initialised or the queue lock is held, and the result of pop otherwise).
C34_GetScancodeNeverWaits ==
    ~(/\ stack # <<>>
      /\ stack[1].pc \in {"gs_check", "gs_try", "gs_ret"}
      /\ WantedByCall \in Locks
      /\ lock[WantedByCall] = "fg")

\* C37: while the logger lock is held during Logger::log, nothing reached
\* from it tries to take the logger lock again, so that a log call at or
\* above the configured level with file logging enabled returns.
C37_LoggerNeverRelocked ==
    ~(/\ WantedByCall = "LOGGER"
      /\ lock["LOGGER"] = "fg")

\* C38: report_error never tries to take the display-writer lock while it
\* already holds it, so that with logging returning it returns to its
\* caller, the call that first enters safe mode and a call that shows the
\* fatal-error screen included.
C38_WriterNeverRelocked ==
    ~(/\ lock["ERROR_HANDLER"] = "fg"
      /\ WantedByCall = "WRITER"
      /\ lock["WRITER"] = "fg")

====
